---- MODULE Spec2Model ----
(***************************************************************************)
(* ClipStream backend: the clip routes (src/routes/clips.js), the YouTube  *)
(* extraction service (src/services/youtubeService.js) and the Clip, Like  *)
(* and Comment collections with their indexes.                             *)
(*                                                                         *)
(* Texts (time codes, URLs, duration strings) are sequences of one-        *)
(* character strings.  JavaScript numbers that may be NaN or null are      *)
(* records [t, v] with t in {"num", "nan", "null"}.                        *)
(***************************************************************************)
EXTENDS Integers, Sequences, FiniteSets, TLC

(***************************************************************************)
(* Bounds of the model.                                                    *)
(***************************************************************************)
MaxTimeLen == 3        \* longest time text a client submits (SpecCreate)
MaxReqs == 2           \* request handlers in flight at once (Spec)
MaxRequests == 4       \* write requests issued in a run of Spec
MaxClips == 1          \* clips created in a run of Spec
MaxSeqRequests == 5    \* write requests issued in a run of SpecSeq
MaxSeqClips == 2       \* clips created in a run of SpecSeq
MaxFeedRequests == 3   \* write requests issued in a run of SpecFeed
MaxPageClips == 25     \* clips created in a run of SpecPage
MaxPage == 4           \* largest ?page= value requested
MaxLimit == 3          \* largest ?limit= value requested
MaxSeconds == 359999   \* longest video duration formatted (SpecRoundTrip)
MaxSegments == 4       \* most colon-separated segments of a time text (SpecParse)
MaxEnrichRequests == 4 \* write requests issued in a run of SpecEnrich
MaxEnrichClips == 3    \* clips created in a run of SpecEnrich
MaxLiveRequests == 3   \* write requests issued in a run of SpecLive
MaxLiveClips == 1      \* clips created in a run of SpecLive
MaxToggleRequests == 4 \* requests issued in a run of SpecToggle

(***************************************************************************)
(* JavaScript values.                                                      *)
(***************************************************************************)
Num(n) == [t |-> "num", v |-> n]
NaN == [t |-> "nan", v |-> 0]
Null == [t |-> "null", v |-> 0]
\* the value of the expression in a boolean position (0, NaN, null are falsy)
Truthy(x) == x.t = "num" /\ x.v # 0
\* a < b on numbers; any comparison with NaN is false
JsLess(a, b) == a.t = "num" /\ b.t = "num" /\ a.v < b.v
JsAdd(a, b) == IF a.t = "num" /\ b.t = "num" THEN Num(a.v + b.v) ELSE NaN
JsMul(a, k) == IF a.t = "num" THEN Num(a.v * k) ELSE NaN

\* req.body field that is not present (undefined)
Undefined == <<"undefined">>

Digits == <<"0", "1", "2", "3", "4", "5", "6", "7", "8", "9">>
IsDigit(c) == \E i \in 1..10 : Digits[i] = c
DigitVal(c) == (CHOOSE i \in 1..10 : Digits[i] = c) - 1

RECURSIVE DecimalValue(_)
DecimalValue(s) ==
    IF s = <<>> THEN 0
    ELSE 10 * DecimalValue(SubSeq(s, 1, Len(s) - 1)) + DigitVal(s[Len(s)])

AllDigits(s) == \A i \in 1..Len(s) : IsDigit(s[i])

\* Number(str) for a text over digits and "-": the empty string is 0, a
\* decimal numeral (with an optional leading minus) is its value, anything
\* else is NaN.
JsNumber(s) ==
    IF s = <<>> THEN Num(0)
    ELSE IF AllDigits(s) THEN Num(DecimalValue(s))
    ELSE IF s[1] = "-" /\ Len(s) > 1 /\ AllDigits(Tail(s))
         THEN Num(0 - DecimalValue(Tail(s)))
    ELSE NaN

\* str.split(':')
RECURSIVE SplitColon(_)
SplitColon(s) ==
    IF \A i \in 1..Len(s) : s[i] # ":" THEN <<s>>
    ELSE LET k == CHOOSE i \in 1..Len(s) :
                     s[i] = ":" /\ \A j \in 1..(i - 1) : s[j] # ":"
         IN <<SubSeq(s, 1, k - 1)>> \o SplitColon(SubSeq(s, k + 1, Len(s)))

RECURSIVE ToDigits(_)
\* n.toString() for an integer n >= 0
ToDigits(n) ==
    IF n < 10 THEN <<Digits[n + 1]>>
    ELSE ToDigits(n \div 10) \o <<Digits[(n % 10) + 1]>>

\* n.toString().padStart(2, '0')
PadStart2(n) == IF n < 10 THEN <<"0">> \o ToDigits(n) ELSE ToDigits(n)

\* str.includes(pat)
Includes(text, pat) ==
    \E i \in 1..(Len(text) - Len(pat) + 1) : SubSeq(text, i, i + Len(pat) - 1) = pat

\* The characters that /\s/ matches, which are the ones String.prototype.trim
\* removes; those a TLA+ string cannot escape stand as <U+xxxx>, one element
\* (one UTF-16 code unit) each.
Whitespace ==
    {" ", "\t", "\n", "\f", "\r", "<U+000B>", "<U+00A0>", "<U+1680>",
     "<U+2000>", "<U+2001>", "<U+2002>", "<U+2003>", "<U+2004>", "<U+2005>",
     "<U+2006>", "<U+2007>", "<U+2008>", "<U+2009>", "<U+200A>",
     "<U+2028>", "<U+2029>", "<U+202F>", "<U+205F>", "<U+3000>", "<U+FEFF>"}
\* str.replace(/^\s+/, ''): the text from its first character that is not
\* white space
TrimStart(text) ==
    IF text = <<>> \/ text[1] \notin Whitespace THEN text
    ELSE LET kept == {i \in 1..Len(text) : text[i] \notin Whitespace}
         IN IF kept = {} THEN <<>>
            ELSE SubSeq(text, CHOOSE i \in kept : \A j \in kept : i <= j, Len(text))
\* the text up to its last character that is not white space: `behind` are
\* the numbers of characters behind each character that is kept
TrimEnd(text) ==
    IF text = <<>> \/ text[Len(text)] \notin Whitespace THEN text
    ELSE LET behind == {Len(text) - i : i \in {j \in 1..Len(text) : text[j] \notin Whitespace}}
         IN IF behind = {} THEN <<>>
            ELSE SubSeq(text, 1, Len(text) - (CHOOSE d \in behind : \A e \in behind : d <= e))
\* str.trim(), and the trim() sanitizer of express-validator: the white space
\* at both ends is removed
Trim(text) == TrimEnd(TrimStart(text))

\* One element of a text is one code point.  Astral stands for a character
\* outside the Basic Multilingual Plane (an emoji): one code point, two
\* UTF-16 code units.
Astral == "<astral>"
\* the grave accent, which a TLA+ string cannot hold
Backtick == "<grave>"
\* str.length: UTF-16 code units
Utf16Length(text) == Len(text) + Cardinality({i \in 1..Len(text) : text[i] = Astral})
\* validator.js isLength measures str.length minus the surrogate pairs
ValidatorLength(text) == Len(text)

(***************************************************************************)
(* youtubeService.js                                                       *)
(***************************************************************************)
\* mutant: the hours of an h:m:s text are weighted like minutes
timeToSecondsHoursAsMinutes(timeStr) ==
    IF timeStr = <<>> \/ timeStr = <<"0", ":", "0", "0">> THEN Num(0)
    ELSE LET texts == SplitColon(timeStr)
             parts == [i \in 1..Len(texts) |-> JsNumber(texts[i])]
         IN IF Len(parts) = 2
            THEN JsAdd(JsMul(parts[1], 60), parts[2])
            ELSE IF Len(parts) = 3
            THEN JsAdd(JsAdd(JsMul(parts[1], 60), JsMul(parts[2], 60)), parts[3])
            ELSE Num(0)

timeToSeconds(timeStr) ==
    IF timeStr = <<>> \/ timeStr = <<"0", ":", "0", "0">> THEN Num(0)
    ELSE LET texts == SplitColon(timeStr)
             parts == [i \in 1..Len(texts) |-> JsNumber(texts[i])]
         IN IF Len(parts) = 2
            THEN JsAdd(JsMul(parts[1], 60), parts[2])
            ELSE IF Len(parts) = 3
            THEN JsAdd(JsAdd(JsMul(parts[1], 3600), JsMul(parts[2], 60)), parts[3])
            ELSE Num(0)

\* mutant: the hours are dropped instead of rendered
FormatFullDropHours(totalSeconds) ==
    IF totalSeconds = 0 THEN <<>>
    ELSE ToDigits((totalSeconds % 3600) \div 60) \o <<":">>
             \o PadStart2(totalSeconds % 60)

\* the `duration` string of extractVideoInfo (lines 52-64)
FormatFull(totalSeconds) ==
    IF totalSeconds = 0 THEN <<>>
    ELSE LET hours == totalSeconds \div 3600
             minutes == (totalSeconds % 3600) \div 60
             seconds == totalSeconds % 60
         IN IF hours > 0
            THEN ToDigits(hours) \o <<":">> \o PadStart2(minutes)
                     \o <<":">> \o PadStart2(seconds)
            ELSE ToDigits(minutes) \o <<":">> \o PadStart2(seconds)

\* mutant: the span is rendered with the hours split off, as the full
\* duration is
FormatClipSplitHours(startTimeSeconds, endTimeSeconds) ==
    IF Truthy(endTimeSeconds) /\ JsLess(startTimeSeconds, endTimeSeconds)
    THEN FormatFull(endTimeSeconds.v - startTimeSeconds.v)
    ELSE <<>>


\* the `clipDuration` string of extractVideoInfo (lines 67-73)
FormatClip(startTimeSeconds, endTimeSeconds) ==
    IF Truthy(endTimeSeconds) /\ JsLess(startTimeSeconds, endTimeSeconds)
    THEN LET durationSeconds == endTimeSeconds.v - startTimeSeconds.v
         IN ToDigits(durationSeconds \div 60) \o <<":">>
                \o PadStart2(durationSeconds % 60)
    ELSE <<>>

WordChars ==
    {"a", "b", "c", "d", "e", "f", "g", "h", "i", "j", "k", "l", "m", "n", "o",
     "p", "q", "r", "s", "t", "u", "v", "w", "x", "y", "z",
     "A", "B", "C", "D", "E", "F", "G", "H", "I", "J", "K", "L", "M", "N", "O",
     "P", "Q", "R", "S", "T", "U", "V", "W", "X", "Y", "Z",
     "0", "1", "2", "3", "4", "5", "6", "7", "8", "9", "_"}

\* the five alternatives of group 1 of the regular expression; "<any>" is
\* the unescaped dot of youtu.be, "<word>" is \w
Markers ==
    << <<"y", "o", "u", "t", "u", "<any>", "b", "e", "/">>,
       <<"v", "/">>,
       <<"/", "u", "/", "<word>", "/">>,
       <<"e", "m", "b", "e", "d", "/">>,
       <<"w", "a", "t", "c", "h", "?">> >>

PatternAt(s, i, pat) ==
    /\ i + Len(pat) - 1 <= Len(s)
    /\ \A k \in 1..Len(pat) :
          \/ pat[k] = "<any>"
          \/ pat[k] = "<word>" /\ s[i + k - 1] \in WordChars
          \/ pat[k] = s[i + k - 1]

\* the position after the alternative matching at i, 0 when none matches
MarkerEnd(s, i) ==
    IF \E m \in 1..Len(Markers) : PatternAt(s, i, Markers[m])
    THEN i + Len(Markers[CHOOSE m \in 1..Len(Markers) :
                            /\ PatternAt(s, i, Markers[m])
                            /\ \A n \in 1..(m - 1) : ~PatternAt(s, i, Markers[n])])
    ELSE 0

\* skip one optional character c at position j
SkipOpt(s, j, c) == IF j <= Len(s) /\ s[j] = c THEN j + 1 ELSE j

NoVideoId == <<>>

\* url.match(/^.*((youtu.be\/)|(v\/)|(\/u\/\w\/)|(embed\/)|(watch\?))\??v?=?([^#&?]*).*/)
\* The leading .* is greedy, so group 1 is the last place an alternative
\* matches; everything after it is optional, so each greedy choice stands.
extractVideoId(url) ==
    LET starts == {i \in 1..Len(url) : MarkerEnd(url, i) # 0}
    IN IF starts = {} THEN NoVideoId
       ELSE LET i == CHOOSE x \in starts : \A y \in starts : y <= x
                j == SkipOpt(url, SkipOpt(url, SkipOpt(url, MarkerEnd(url, i), "?"), "v"), "=")
                stops == {k \in j..Len(url) : url[k] \in {"#", "&", "?"}}
                e == IF stops = {} THEN Len(url)
                     ELSE (CHOOSE x \in stops : \A y \in stops : x <= y) - 1
                match7 == SubSeq(url, j, e)
            IN IF Len(match7) = 11 THEN match7 ELSE NoVideoId

ExtractionFailedMessage ==
    <<"F", "a", "i", "l", "e", "d", " ", "t", "o", " ", "e", "x", "t", "r", "a", "c", "t", " ", "Y", "o", "u", "T", "u", "b", "e", " ", "v", "i", "d", "e", "o", " ", "i", "n", "f", "o", "r", "m", "a", "t", "i", "o", "n", ".", " ", "P", "l", "e", "a", "s", "e", " ", "c", "h", "e", "c", "k", " ", "t", "h", "e", " ", "U", "R", "L", " ", "a", "n", "d", " ", "t", "r", "y", " ", "a", "g", "a", "i", "n", ".">>

\* extractVideoInfo(youtubeUrl, startTime = '0:00', endTime = ''); `provider`
\* is the outcome of the youtubeDl call: [ok, duration, thumbnail]
extractVideoInfo(youtubeUrl, startTimeArg, endTimeArg, provider) ==
    LET startTime == IF startTimeArg = Undefined THEN <<"0", ":", "0", "0">>
                     ELSE startTimeArg
        endTime == IF endTimeArg = Undefined THEN <<>> ELSE endTimeArg
        videoId == extractVideoId(youtubeUrl)
        startTimeSeconds == timeToSeconds(startTime)
        endTimeSeconds == IF endTime # <<>> THEN timeToSeconds(endTime) ELSE Null
        duration == FormatFull(provider.duration)
        clipDuration == FormatClip(startTimeSeconds, endTimeSeconds)
    IN IF ~provider.ok \/ videoId = NoVideoId
       THEN [ok |-> FALSE, message |-> ExtractionFailedMessage]
       ELSE [ok |-> TRUE,
             videoId |-> videoId,
             thumbnailUrl |-> IF provider.thumbnail # <<>> THEN provider.thumbnail
                              ELSE <<"https://img.youtube.com/vi/">> \o videoId
                                       \o <<"/hqdefault.jpg">>,
             duration |-> IF clipDuration # <<>> THEN clipDuration ELSE duration,
             startTimeSeconds |-> startTimeSeconds,
             endTimeSeconds |-> endTimeSeconds]

(***************************************************************************)
(* Request inputs.                                                         *)
(***************************************************************************)
Users == {"u1", "u2"}
ShortUrl == <<"h", "t", "t", "p", "s", ":", "/", "/", "y", "o", "u", "t", "u", ".", "b", "e", "/", "d", "Q", "w", "4", "w", "9", "W", "g", "X", "c", "Q">>
WatchUrl == <<"h", "t", "t", "p", "s", ":", "/", "/", "w", "w", "w", ".", "y", "o", "u", "t", "u", "b", "e", ".", "c", "o", "m", "/", "w", "a", "t", "c", "h", "?", "v", "=", "d", "Q", "w", "4", "w", "9", "W", "g", "X", "c", "Q">>
OtherUrl == <<"h", "t", "t", "p", "s", ":", "/", "/", "e", "x", "a", "m", "p", "l", "e", ".", "c", "o", "m", "/", "c", "l", "i", "p", "s", "/", "4", "2">>
NotAUrl == <<"n", "o", "t", " ", "a", " ", "u", "r", "l">>

ShortTitle == <<"c", "l", "i", "p">>
\* sixty emoji and a word: 67 code points, 127 UTF-16 code units
AstralTitle == [i \in 1..60 |-> Astral] \o <<"Y", "o", "u", "T", "u", "b", "e">>
AstralPlainTitle == [i \in 1..60 |-> Astral] \o <<"c", "l", "i", "p", "s", "!", "!">>
BlankTitle == <<" ">>
PaddedTitle == <<" ", "c", "l", "i", "p", " ">>
\* white space other than blanks: a carriage return alone, a title ending in
\* a line ending, a no-break space before 100 letters
CrTitle == <<"\r">>
LineEndTitle == <<"c", "l", "i", "p", "\r", "\n">>
LongPaddedTitle == <<"<U+00A0>">> \o [i \in 1..100 |-> "a"]

ShortDescription == <<"f", "u", "n">>
\* 260 emoji and a word: 267 code points, 527 UTF-16 code units
AstralDescription == [i \in 1..260 |-> Astral] \o <<"Y", "o", "u", "T", "u", "b", "e">>
\* 501 carriage returns: nothing is left after trim()
BlankDescription == [i \in 1..501 |-> "\r"]

ShortContent == <<"h", "i">>
BlankContent == <<" ", " ">>
CrContent == <<"\r">>
\* 500 letters and a line ending: 500 characters after trim()
LineEndContent == [i \in 1..500 |-> "a"] \o <<"\r", "\n">>
\* 300 emoji: 300 code points, 600 UTF-16 code units
AstralContent == [i \in 1..300 |-> Astral]

\* Authorization headers of the public routes: none, a bearer token signed
\* for a user (written as that user), or a token that fails verification
NoHeader == "none"
BadToken == "bad"
AuthHeaders == {NoHeader, BadToken} \cup Users
NoViewer == "nobody"

DefaultPage == 1
DefaultLimit == 10
TitleMax == 100
DescriptionMax == 500
ContentMax == 500

(***************************************************************************)
(* State.                                                                  *)
(***************************************************************************)
VARIABLES
    clips,          \* Clip collection: set of documents
    likes,          \* Like collection: set of documents
    comments,       \* Comment collection: set of documents
    nextClipId,     \* ObjectIds are fresh: the next _id of each collection
    nextLikeId,
    nextCommentId,
    reqs,           \* the handlers in flight: slot -> handler state
    out,            \* the response sent by the latest step, NoOut if none
    issued,         \* the number of write requests received so far
    call,           \* the request under study: the one Init draws, or the
                    \* GET whose enrichment tasks are in flight
    deleted200,     \* history: clip ids whose DELETE responded 200
    hist            \* history: the last two completed write requests

vars == <<clips, likes, comments, nextClipId, nextLikeId, nextCommentId,
          reqs, out, issued, call, deleted200, hist>>

Slots == 1..MaxReqs
NoId == 0
\* the locals of a handler besides its clip id: none, for most handlers
NoData == [kind |-> "none"]
Idle == [op |-> "idle", pc |-> "idle", user |-> NoViewer, clip |-> NoId,
         existingLike |-> NoId, solo |-> FALSE, before |-> {}, data |-> NoData]
NoOut == [op |-> "none"]

(***************************************************************************)
(* Collections (the Like schema and its indexes are at server.js 57-84).   *)
(***************************************************************************)
\* LikeSchema.index({ user: 1, clip: 1, type: 1 }, { unique: true, sparse: true })
IndexUserClipType(l) == <<l.user, l.clip, l.type>>
\* LikeSchema.index({ user: 1, comment: 1, type: 1 }, { unique: true, sparse: true })
\* A sparse compound index skips a document only when it has none of the
\* indexed fields; user and type are required, so every Like is indexed and
\* a missing clip or comment is indexed as null (NoId).
IndexUserCommentType(l) == <<l.user, l.comment, l.type>>

\* mutant: the indexes are not unique
DuplicateKeyNever(doc) == FALSE

\* whether inserting doc raises E11000 (duplicate key)
DuplicateKey(doc) ==
    \E l \in likes : \/ IndexUserClipType(l) = IndexUserClipType(doc)
                     \/ IndexUserCommentType(l) = IndexUserCommentType(doc)

ClipIds == {c.id : c \in clips}
\* Clip.findById
ClipById(id) == CHOOSE c \in clips : c.id = id

\* mutant: the handlers do not test what findById returned
ClipMissingNever(clipId) == FALSE

\* `!clip` after `clip = await Clip.findById(clipId)`
ClipMissing(clipId) == clipId \notin ClipIds

\* mutant: the query names the comment field instead of the clip field
CountClipLikesByComment(clipId) ==
    Cardinality({l \in likes : l.comment = clipId /\ l.type = "clip"})

\* Like.countDocuments({ clip, type: 'clip' })
CountClipLikes(clipId) ==
    Cardinality({l \in likes : l.clip = clipId /\ l.type = "clip"})
\* Like.countDocuments({ comment, type: 'comment' })
CountCommentLikes(commentId) ==
    Cardinality({l \in likes : l.comment = commentId /\ l.type = "comment"})
\* Comment.countDocuments({ clip })
CountComments(clipId) == Cardinality({m \in comments : m.clip = clipId})

\* Like.findOne({ user, clip, type: 'clip' }): the _id found, NoId for null
FindClipLike(user, clipId) ==
    LET found == {l \in likes : l.user = user /\ l.clip = clipId /\ l.type = "clip"}
    IN IF found = {} THEN NoId ELSE (CHOOSE l \in found : TRUE).id

\* .sort({ createdAt: -1 }): _ids are handed out in creation order
RECURSIVE SortNewestFirst(_)
SortNewestFirst(docs) ==
    IF docs = {} THEN <<>>
    ELSE LET newest == CHOOSE d \in docs : \A e \in docs : e.id <= d.id
         IN <<newest>> \o SortNewestFirst(docs \ {newest})

\* mutant: the limit is applied to the whole result, before the skip
SkipAfterLimit(seq, skip, limit) ==
    SubSeq(seq, skip + 1, IF limit < Len(seq) THEN limit ELSE Len(seq))

\* .skip(skip).limit(limit)
SkipLimit(seq, skip, limit) ==
    SubSeq(seq, skip + 1, IF skip + limit < Len(seq) THEN skip + limit ELSE Len(seq))

(***************************************************************************)
(* Optional authentication of the public routes (clips.js 92-109).         *)
(***************************************************************************)
\* clips.js requires express, express-validator, auth, the three models and
\* youtubeService (lines 2-9); nothing binds the name `jwt`.
JwtBound == FALSE

\* the viewer the try block resolves; a throw inside it is swallowed
ResolveViewer(authorization) ==
    IF authorization = NoHeader THEN NoViewer
    ELSE IF ~JwtBound THEN NoViewer          \* ReferenceError: jwt is not defined
    ELSE IF authorization \in Users THEN authorization
    ELSE NoViewer                            \* jwt.verify throws

\* mutant: isLiked is taken from the clip's likes, whoever the viewer is
IsLikedByAnyone(authorization, clipId) ==
    \E l \in likes : l.clip = clipId /\ l.type = "clip"


IsLikedClip(authorization, clipId) ==
    LET userId == ResolveViewer(authorization)
    IN /\ userId # NoViewer
       /\ \E l \in likes : l.user = userId /\ l.clip = clipId /\ l.type = "clip"

IsLikedComment(authorization, commentId) ==
    LET userId == ResolveViewer(authorization)
    IN /\ userId # NoViewer
       /\ \E l \in likes :
             l.user = userId /\ l.comment = commentId /\ l.type = "comment"

CeilDiv(a, b) == (a + b - 1) \div b

(***************************************************************************)
(* History kept for the properties: which requests ran alone, and what the *)
(* Like collection held before and after them.                             *)
(***************************************************************************)
LikeKeys(coll) == {IndexUserClipType(l) : l \in coll}
AllIdle == \A s \in Slots : reqs[s].op = "idle"
Other == [op |-> "other"]
\* the history is off (NoHistory), a window of the last two completed
\* requests (started at <<>>), or a log of all of them (started at LogStart)
NoHistory == <<[op |-> "off"]>>
LogStart == <<[op |-> "log"]>>
Push(h, e) ==
    IF h = NoHistory THEN h
    ELSE IF h # <<>> /\ h[1].op = "log" THEN Append(h, e)
    ELSE IF Len(h) = 2 THEN <<h[2], e>> ELSE Append(h, e)

\* slot r starts handling a request, with `data` for its locals; the
\* handlers already running are no longer alone
BeginWith(r, op, pc, user, clipId, data) ==
    [s \in Slots |->
        IF s = r
        THEN [op |-> op, pc |-> pc, user |-> user, clip |-> clipId,
              existingLike |-> NoId,
              solo |-> (hist # NoHistory /\ AllIdle),
              before |-> IF hist # NoHistory THEN LikeKeys(likes) ELSE {},
              data |-> data]
        ELSE IF reqs[s].op # "idle" THEN [reqs[s] EXCEPT !.solo = FALSE]
        ELSE reqs[s]]

Begin(r, op, pc, user, clipId) == BeginWith(r, op, pc, user, clipId, NoData)

Goto(r, pc) == [reqs EXCEPT ![r].pc = pc]
Finish(r) == [reqs EXCEPT ![r] = Idle]

\* the history entry of a toggle that responds `response`; the window keeps
\* the toggles that ran alone, the log keeps them all
LikeEntry(alone, before, after, response) ==
    IF alone \/ (hist # <<>> /\ hist[1].op = "log")
    THEN [op |-> "like", user |-> response.user, clip |-> response.clip,
          before |-> before, after |-> LikeKeys(after), response |-> response]
    ELSE Other

(***************************************************************************)
(* The catch blocks of the handlers (clips.js 126-129, 177-180, 208-211,   *)
(* 265-268, 313-316, 366-369, 396-399): res.status(500).json(...)          *)
(***************************************************************************)
\* mutant: the catch block logs the error and sends nothing
CatchSilent(op, user, clipId) == NoOut

CatchResponse(op, user, clipId) ==
    [op |-> op, user |-> user, clip |-> clipId, status |-> 500]

(***************************************************************************)
(* POST /api/clips/:id/like  (clips.js 217-269); req.user.id is set by the *)
(* auth middleware before the handler runs.                                *)
(***************************************************************************)
\* lines 219-225: Clip.findById
LikeFindClip(r, user, clipId) ==
    /\ reqs[r].op = "idle"
    /\ issued' = issued + 1
    /\ IF ClipMissing(clipId)
       THEN LET response == [op |-> "like", user |-> user, clip |-> clipId,
                             status |-> 404]
            IN /\ out' = response
               /\ hist' = Push(hist, LikeEntry(AllIdle, LikeKeys(likes), likes, response))
               /\ UNCHANGED reqs
       ELSE /\ reqs' = Begin(r, "like", "findLike", user, clipId)
            /\ out' = NoOut
            /\ UNCHANGED hist
    /\ UNCHANGED <<call, clips, likes, comments, nextClipId, nextLikeId, nextCommentId,
                   deleted200>>

\* lines 228-234: Like.findOne
LikeFindOne(r) ==
    /\ reqs[r].op = "like" /\ reqs[r].pc = "findLike"
    /\ LET existingLike == FindClipLike(reqs[r].user, reqs[r].clip)
       IN reqs' = [reqs EXCEPT ![r].existingLike = existingLike,
                               ![r].pc = IF existingLike # NoId THEN "unlike"
                                         ELSE "save"]
    /\ out' = NoOut
    /\ UNCHANGED <<issued, call, clips, likes, comments, nextClipId, nextLikeId, nextCommentId,
                   deleted200, hist>>

\* line 236: Like.findByIdAndDelete(existingLike._id)
LikeDelete(r) ==
    /\ reqs[r].op = "like" /\ reqs[r].pc = "unlike"
    /\ likes' = {l \in likes : l.id # reqs[r].existingLike}
    /\ reqs' = Goto(r, "countUnliked")
    /\ out' = NoOut
    /\ UNCHANGED <<issued, call, clips, comments, nextClipId, nextLikeId, nextCommentId,
                   deleted200, hist>>

\* lines 249-255: new Like(...).save(); a duplicate key rejects, and the
\* catch at 265-268 responds 500
LikeSave(r) ==
    /\ reqs[r].op = "like" /\ reqs[r].pc = "save"
    /\ LET like == [id |-> nextLikeId, user |-> reqs[r].user,
                    clip |-> reqs[r].clip, comment |-> NoId, type |-> "clip"]
           response == CatchResponse("like", reqs[r].user, reqs[r].clip)
       IN IF DuplicateKey(like)
          THEN /\ out' = response
               /\ hist' = Push(hist, LikeEntry(reqs[r].solo, reqs[r].before,
                                               likes, response))
               /\ reqs' = Finish(r)
               /\ UNCHANGED <<likes, nextLikeId>>
          ELSE /\ likes' = likes \cup {like}
               /\ nextLikeId' = nextLikeId + 1
               /\ reqs' = Goto(r, "countLiked")
               /\ out' = NoOut
               /\ UNCHANGED hist
    /\ UNCHANGED <<issued, call, clips, comments, nextClipId, nextCommentId, deleted200>>

\* lines 239-245 and 258-264: Like.countDocuments, then the response
LikeCount(r) ==
    /\ reqs[r].op = "like" /\ reqs[r].pc \in {"countUnliked", "countLiked"}
    /\ LET response == [op |-> "like", user |-> reqs[r].user,
                        clip |-> reqs[r].clip, status |-> 200,
                        isLiked |-> (reqs[r].pc = "countLiked"),
                        likesCount |-> CountClipLikes(reqs[r].clip)]
       IN /\ out' = response
          /\ hist' = Push(hist, LikeEntry(reqs[r].solo, reqs[r].before,
                                          likes, response))
    /\ reqs' = Finish(r)
    /\ UNCHANGED <<issued, call, clips, likes, comments, nextClipId, nextLikeId, nextCommentId,
                   deleted200>>

(***************************************************************************)
(* POST /api/clips/:id/comments  (clips.js 274-317)                        *)
(***************************************************************************)
\* body('content').trim().isLength({ min: 1, max: 500 }): the sanitizer
\* trims, the validator counts code points
ContentValid(content) ==
    LET length == ValidatorLength(Trim(content))
    IN 1 <= length /\ length <= ContentMax

\* content: { maxlength: 500 } of the Comment schema (Comment.js 15-20)
\* compares content.length
CommentSaveValid(content) == Utf16Length(content) <= ContentMax

\* lines 282-301: validation, Clip.findById, then new Comment(...), which
\* draws the _id and createdAt of the comment, and the call of save()
CommentFindClip(r, user, clipId, content) ==
    /\ reqs[r].op = "idle"
    /\ issued' = issued + 1
    /\ IF ~ContentValid(content)
       THEN /\ out' = [op |-> "comment", user |-> user, clip |-> clipId,
                       status |-> 400, content |-> content]
            /\ hist' = Push(hist, Other)
            /\ UNCHANGED <<reqs, nextCommentId>>
       ELSE IF ClipMissing(clipId)
       THEN /\ out' = [op |-> "comment", user |-> user, clip |-> clipId,
                       status |-> 404, content |-> content]
            /\ hist' = Push(hist, Other)
            /\ UNCHANGED <<reqs, nextCommentId>>
       ELSE /\ reqs' = BeginWith(r, "comment", "save", user, clipId,
                                 [kind |-> "comment", content |-> Trim(content),
                                  comment |-> nextCommentId])
            /\ nextCommentId' = nextCommentId + 1
            /\ out' = NoOut
            /\ UNCHANGED hist
    /\ UNCHANGED <<call, clips, likes, comments, nextClipId, nextLikeId, deleted200>>

\* line 303: comment.save() validates the document and inserts it; a content
\* longer than the schema allows rejects, and the catch at 313-316 responds
CommentSave(r) ==
    /\ reqs[r].op = "comment" /\ reqs[r].pc = "save"
    /\ IF CommentSaveValid(reqs[r].data.content)
       THEN /\ comments' = comments \cup {[id |-> reqs[r].data.comment,
                                           user |-> reqs[r].user,
                                           clip |-> reqs[r].clip]}
            /\ reqs' = Goto(r, "populate")
            /\ out' = NoOut
            /\ UNCHANGED hist
       ELSE /\ out' = CatchResponse("comment", reqs[r].user, reqs[r].clip)
            /\ hist' = Push(hist, Other)
            /\ reqs' = Finish(r)
            /\ UNCHANGED comments
    /\ UNCHANGED <<issued, call, clips, likes, nextClipId, nextLikeId, nextCommentId,
                   deleted200>>

\* lines 306-311: comment.populate('user') reads the User collection, then 201
CommentPopulate(r) ==
    /\ reqs[r].op = "comment" /\ reqs[r].pc = "populate"
    /\ out' = [op |-> "comment", user |-> reqs[r].user, clip |-> reqs[r].clip,
               status |-> 201, comment |-> reqs[r].data.comment]
    /\ hist' = Push(hist, Other)
    /\ reqs' = Finish(r)
    /\ UNCHANGED <<issued, call, clips, likes, comments, nextClipId, nextLikeId,
                   nextCommentId, deleted200>>

(***************************************************************************)
(* DELETE /api/clips/:id  (clips.js 375-400)                               *)
(***************************************************************************)
\* mutant: the ownership comparison is inverted
NotOwnerInverted(clip, user) == clip.user = user

\* line 384: clip.user.toString() !== req.user.id
NotOwner(clip, user) == clip.user # user

\* lines 377-386: Clip.findById, then the ownership check
DeleteFindClip(r, user, clipId) ==
    /\ reqs[r].op = "idle"
    /\ issued' = issued + 1
    /\ IF ClipMissing(clipId)
       THEN /\ out' = [op |-> "delete", user |-> user, clip |-> clipId,
                       status |-> 404]
            /\ hist' = Push(hist, Other)
            /\ UNCHANGED reqs
       ELSE IF NotOwner(ClipById(clipId), user)
       THEN /\ out' = [op |-> "delete", user |-> user, clip |-> clipId,
                       status |-> 403]
            /\ hist' = Push(hist, Other)
            /\ UNCHANGED reqs
       ELSE /\ reqs' = Begin(r, "delete", "deleteComments", user, clipId)
            /\ out' = NoOut
            /\ UNCHANGED hist
    /\ UNCHANGED <<call, clips, likes, comments, nextClipId, nextLikeId, nextCommentId,
                   deleted200>>

\* mutant: the filter is left out, Comment.deleteMany({})
DeleteCommentsOfEveryClip(r) ==
    /\ reqs[r].op = "delete" /\ reqs[r].pc = "deleteComments"
    /\ comments' = {}
    /\ reqs' = Goto(r, "deleteLikes")
    /\ out' = NoOut
    /\ UNCHANGED <<issued, call, clips, likes, nextClipId, nextLikeId, nextCommentId,
                   deleted200, hist>>

\* line 389: Comment.deleteMany({ clip })
DeleteComments(r) ==
    /\ reqs[r].op = "delete" /\ reqs[r].pc = "deleteComments"
    /\ comments' = {m \in comments : m.clip # reqs[r].clip}
    /\ reqs' = Goto(r, "deleteLikes")
    /\ out' = NoOut
    /\ UNCHANGED <<issued, call, clips, likes, nextClipId, nextLikeId, nextCommentId,
                   deleted200, hist>>

\* line 390: Like.deleteMany({ clip, type: 'clip' })
DeleteLikes(r) ==
    /\ reqs[r].op = "delete" /\ reqs[r].pc = "deleteLikes"
    /\ likes' = {l \in likes : ~(l.clip = reqs[r].clip /\ l.type = "clip")}
    /\ reqs' = Goto(r, "deleteClip")
    /\ out' = NoOut
    /\ UNCHANGED <<issued, call, clips, comments, nextClipId, nextLikeId, nextCommentId,
                   deleted200, hist>>

\* lines 393-395: Clip.findByIdAndDelete, then 200
DeleteClipDoc(r) ==
    /\ reqs[r].op = "delete" /\ reqs[r].pc = "deleteClip"
    /\ clips' = {c \in clips : c.id # reqs[r].clip}
    /\ out' = [op |-> "delete", user |-> reqs[r].user, clip |-> reqs[r].clip,
               status |-> 200]
    /\ deleted200' = deleted200 \cup {reqs[r].clip}
    /\ hist' = Push(hist, Other)
    /\ reqs' = Finish(r)
    /\ UNCHANGED <<issued, call, likes, comments, nextClipId, nextLikeId, nextCommentId>>

(***************************************************************************)
(* POST /api/clips  (clips.js 14-65): the validation chain, then the       *)
(* handler with its three awaits (extractVideoInfo, save, populate).       *)
(***************************************************************************)
\* body('youtubeUrl').isURL(): of the URLs requested here validator.js
\* rejects the one holding a space
IsURL(url) == \A i \in 1..Len(url) : url[i] # " "

\* body('title').trim().isLength({ min: 1, max: 100 }): the sanitizer trims,
\* the validator counts code points
TitleValid(title) ==
    LET length == ValidatorLength(Trim(title))
    IN 1 <= length /\ length <= TitleMax

\* body('description').optional().trim().isLength({ max: 500 })
DescriptionValid(description) ==
    description = Undefined \/ ValidatorLength(Trim(description)) <= DescriptionMax

\* lines 18-20 and 24-27
BodyValid(youtubeUrl, title, description) ==
    /\ IsURL(youtubeUrl)
    /\ TitleValid(title)
    /\ DescriptionValid(description)

\* errors.array()[0].msg: the validators run in the order they are listed
ValidationMessage(youtubeUrl, title, description) ==
    IF ~IsURL(youtubeUrl)
    THEN <<"P", "l", "e", "a", "s", "e", " ", "p", "r", "o", "v", "i", "d", "e", " ", "a", " ", "v", "a", "l", "i", "d", " ", "Y", "o", "u", "T", "u", "b", "e", " ", "U", "R", "L">>
    ELSE IF ~TitleValid(title)
    THEN <<"T", "i", "t", "l", "e", " ", "i", "s", " ", "r", "e", "q", "u", "i", "r", "e", "d", " ", "a", "n", "d", " ", "m", "u", "s", "t", " ", "b", "e", " ", "l", "e", "s", "s", " ", "t", "h", "a", "n", " ", "1", "0", "0", " ", "c", "h", "a", "r", "a", "c", "t", "e", "r", "s">>
    ELSE <<"D", "e", "s", "c", "r", "i", "p", "t", "i", "o", "n", " ", "m", "u", "s", "t", " ", "b", "e", " ", "l", "e", "s", "s", " ", "t", "h", "a", "n", " ", "5", "0", "0", " ", "c", "h", "a", "r", "a", "c", "t", "e", "r", "s">>

ServerErrorMessage == <<"S", "e", "r", "v", "e", "r", " ", "e", "r", "r", "o", "r">>
YouTubeWord == <<"Y", "o", "u", "T", "u", "b", "e">>
NoError == <<>>

\* Mongoose casts startTimeSeconds and endTimeSeconds to Number when the
\* document is built; NaN fails the cast
CastErrorMessage(path) ==
    <<"C", "a", "s", "t", " ", "t", "o", " ", "N", "u", "m", "b", "e", "r", " ", "f", "a", "i", "l", "e", "d", " ", "f", "o", "r", " ", "v", "a", "l", "u", "e", " ", "\"", "N", "a", "N", "\"", " ", "(", "t", "y", "p", "e", " ", "n", "u", "m", "b", "e", "r", ")", " ", "a", "t", " ", "p", "a", "t", "h", " ", "\"">> \o path \o <<"\"">>
\* title: { maxlength: 100 } and description: { maxlength: 500 } compare
\* value.length, and the message quotes the value
MaxlengthMessage(path, value, max) ==
    <<"P", "a", "t", "h", " ", Backtick>> \o path \o <<Backtick, " ", "(", Backtick>> \o value \o <<Backtick, ")", " ", "i", "s", " ", "l", "o", "n", "g", "e", "r", " ", "t", "h", "a", "n", " ", "t", "h", "e", " ", "m", "a", "x", "i", "m", "u", "m", " ", "a", "l", "l", "o", "w", "e", "d", " ", "l", "e", "n", "g", "t", "h", " ", "(">> \o ToDigits(max) \o <<")", ".">>

RECURSIVE JoinComma(_)
JoinComma(texts) ==
    IF Len(texts) = 1 THEN texts[1]
    ELSE texts[1] \o <<",", " ">> \o JoinComma(Tail(texts))

\* the message of the ValidationError that save() rejects with, NoError when
\* the document is valid: the cast errors, then the validator errors in the
\* order of the schema paths.  `description` is Undefined when the body has
\* none (the schema default '' is stored).
SaveValidationMessage(title, description, videoInfo) ==
    LET errors ==
            (IF videoInfo.startTimeSeconds.t = "nan"
             THEN <<<<"s", "t", "a", "r", "t", "T", "i", "m", "e", "S", "e", "c", "o", "n", "d", "s", ":", " ">> \o CastErrorMessage(<<"s", "t", "a", "r", "t", "T", "i", "m", "e", "S", "e", "c", "o", "n", "d", "s">>)>> ELSE <<>>)
         \o (IF videoInfo.endTimeSeconds.t = "nan"
             THEN <<<<"e", "n", "d", "T", "i", "m", "e", "S", "e", "c", "o", "n", "d", "s", ":", " ">> \o CastErrorMessage(<<"e", "n", "d", "T", "i", "m", "e", "S", "e", "c", "o", "n", "d", "s">>)>> ELSE <<>>)
         \o (IF Utf16Length(title) > TitleMax
             THEN <<<<"t", "i", "t", "l", "e", ":", " ">> \o MaxlengthMessage(<<"t", "i", "t", "l", "e">>, title, TitleMax)>> ELSE <<>>)
         \o (IF description # Undefined /\ Utf16Length(description) > DescriptionMax
             THEN <<<<"d", "e", "s", "c", "r", "i", "p", "t", "i", "o", "n", ":", " ">> \o MaxlengthMessage(<<"d", "e", "s", "c", "r", "i", "p", "t", "i", "o", "n">>, description, DescriptionMax)>> ELSE <<>>)
    IN IF errors = <<>> THEN NoError
       ELSE <<"C", "l", "i", "p", " ", "v", "a", "l", "i", "d", "a", "t", "i", "o", "n", " ", "f", "a", "i", "l", "e", "d", ":", " ">> \o JoinComma(errors)

\* what the store does with the request: it works, or it is unreachable when
\* save() or populate() runs
StoreOutcomes == {"ok", "saveFails", "populateFails"}
\* the message of the driver's error when the store is unreachable
StoreDownMessage == <<"c", "o", "n", "n", "e", "c", "t", "i", "o", "n", " ", "t", "i", "m", "e", "d", " ", "o", "u", "t">>

\* lines 57-63
CatchCreate(user, message) ==
    IF Includes(message, YouTubeWord)
    THEN [op |-> "create", user |-> user, status |-> 400, message |-> message]
    ELSE [op |-> "create", user |-> user, status |-> 500,
          message |-> ServerErrorMessage]

NoVideoInfo == [ok |-> FALSE, message |-> <<>>]

\* lines 23-33: validationResult, then extractVideoInfo is called with the
\* sanitized body
CreateReceive(r, user, youtubeUrl, title, description, startTime, endTime) ==
    /\ reqs[r].op = "idle"
    /\ issued' = issued + 1
    /\ IF ~BodyValid(youtubeUrl, title, description)
       THEN /\ out' = [op |-> "create", user |-> user, status |-> 400,
                       message |-> ValidationMessage(youtubeUrl, title, description)]
            /\ hist' = Push(hist, Other)
            /\ UNCHANGED reqs
       ELSE /\ reqs' = BeginWith(r, "create", "extract", user, NoId,
                           [kind |-> "create", youtubeUrl |-> youtubeUrl,
                            title |-> Trim(title),
                            description |-> IF description = Undefined THEN Undefined
                                            ELSE Trim(description),
                            startTime |-> startTime, endTime |-> endTime,
                            videoInfo |-> NoVideoInfo, id |-> NoId])
            /\ out' = NoOut
            /\ UNCHANGED hist
    /\ UNCHANGED <<call, clips, likes, comments, nextClipId, nextLikeId, nextCommentId,
                   deleted200>>

\* lines 33-48: extractVideoInfo settles (`provider` is the outcome of its
\* youtubeDl call); a rejection goes to the catch, otherwise new Clip(...)
\* draws the _id and createdAt of the clip and save() is called
CreateExtract(r, provider) ==
    /\ reqs[r].op = "create" /\ reqs[r].pc = "extract"
    /\ \E videoInfo \in {extractVideoInfo(reqs[r].data.youtubeUrl, reqs[r].data.startTime,
                                          reqs[r].data.endTime, provider)} :
          IF ~videoInfo.ok
          THEN /\ out' = CatchCreate(reqs[r].user, videoInfo.message)
               /\ hist' = Push(hist, Other)
               /\ reqs' = Finish(r)
               /\ UNCHANGED nextClipId
          ELSE /\ reqs' = [reqs EXCEPT ![r].pc = "save",
                                       ![r].data.videoInfo = videoInfo,
                                       ![r].data.id = nextClipId]
               /\ nextClipId' = nextClipId + 1
               /\ out' = NoOut
               /\ UNCHANGED hist
    /\ UNCHANGED <<issued, call, clips, likes, comments, nextLikeId, nextCommentId,
                   deleted200>>

\* the document built at lines 35-46
NewClip(r) ==
    [id |-> reqs[r].data.id, user |-> reqs[r].user,
     youtubeVideoId |-> reqs[r].data.videoInfo.videoId,
     thumbnailUrl |-> reqs[r].data.videoInfo.thumbnailUrl,
     duration |-> reqs[r].data.videoInfo.duration,
     startTimeSeconds |-> reqs[r].data.videoInfo.startTimeSeconds,
     endTimeSeconds |-> reqs[r].data.videoInfo.endTimeSeconds]

\* the ValidationError of the document of handler r, NoError when it is valid
SaveRejection(r) ==
    SaveValidationMessage(reqs[r].data.title, reqs[r].data.description,
                          reqs[r].data.videoInfo)

\* line 48: clip.save() validates the document and inserts it; a
\* ValidationError goes to the catch
CreateSave(r) ==
    /\ reqs[r].op = "create" /\ reqs[r].pc = "save"
    /\ IF SaveRejection(r) # NoError
       THEN /\ out' = CatchCreate(reqs[r].user, SaveRejection(r))
            /\ hist' = Push(hist, Other)
            /\ reqs' = Finish(r)
            /\ UNCHANGED clips
       ELSE /\ clips' = clips \cup {NewClip(r)}
            /\ reqs' = Goto(r, "populate")
            /\ out' = NoOut
            /\ UNCHANGED hist
    /\ UNCHANGED <<issued, call, likes, comments, nextClipId, nextLikeId, nextCommentId,
                   deleted200>>

\* lines 51-56: clip.populate('user') reads the User collection, then 201
CreatePopulate(r) ==
    /\ reqs[r].op = "create" /\ reqs[r].pc = "populate"
    /\ out' = [op |-> "create", user |-> reqs[r].user, status |-> 201,
               clip |-> reqs[r].data.id]
    /\ hist' = Push(hist, Other)
    /\ reqs' = Finish(r)
    /\ UNCHANGED <<issued, call, clips, likes, comments, nextClipId, nextLikeId,
                   nextCommentId, deleted200>>

(***************************************************************************)
(* Store calls that reject (the store is unreachable, the call times out): *)
(* the await throws inside the handler's try block.                        *)
(***************************************************************************)
\* the Clip.findById that opens the like, comment and delete handlers rejects
FirstLookupFails(op, user, clipId) ==
    /\ op \in {"like", "comment", "delete"}
    /\ issued' = issued + 1
    /\ out' = CatchResponse(op, user, clipId)
    /\ hist' = Push(hist, Other)
    /\ UNCHANGED <<call, clips, likes, comments, nextClipId, nextLikeId, nextCommentId,
                   reqs, deleted200>>

\* the store call that handler r awaits rejects (for POST /clips: save or
\* populate; save validates the document before it reaches the store)
StoreFails(r) ==
    /\ \/ reqs[r].op \in {"like", "comment", "delete"}
       \/ reqs[r].op = "create" /\ reqs[r].pc \in {"save", "populate"}
    /\ out' = IF reqs[r].op = "create"
              THEN CatchCreate(reqs[r].user,
                               IF reqs[r].pc = "save" /\ SaveRejection(r) # NoError
                               THEN SaveRejection(r) ELSE StoreDownMessage)
              ELSE CatchResponse(reqs[r].op, reqs[r].user, reqs[r].clip)
    /\ hist' = Push(hist, Other)
    /\ reqs' = Finish(r)
    /\ UNCHANGED <<issued, call, clips, likes, comments, nextClipId, nextLikeId,
                   nextCommentId, deleted200>>

(***************************************************************************)
(* The public GET routes, await by await: the query, then one enrichment   *)
(* task per item, dispatched together by Promise.all(items.map(async ...)) *)
(* and completing in any order (GET /api/clips/:id runs the awaits of one  *)
(* such task itself).  `call` holds the GET handler in flight.             *)
(***************************************************************************)
NoCall == [state |-> "none"]
Pending == [pc |-> "pending"]

\* mutant: the results are collected in the order the tasks complete
SettleInCompletionOrder(results, i, value) ==
    LET k == CHOOSE j \in 1..Len(results) :
                 /\ results[j] = Pending
                 /\ \A h \in 1..(j - 1) : results[h] # Pending
    IN [results EXCEPT ![k] = value]

\* Promise.all keeps the value of the i-th promise at index i
Settle(results, i, value) == [results EXCEPT ![i] = value]

\* no GET handler is in flight
GetIdle == call = NoCall \/ call.state = "responded"

\* lines 72-81: Clip.find().sort().skip().limit(); a query value 0 stands for
\* a missing or zero ?page= / ?limit=, which `parseInt(...) || default`
\* replaces
ListFind(authorization, pageQuery, limitQuery) ==
    /\ GetIdle
    /\ LET page == IF pageQuery = 0 THEN DefaultPage ELSE pageQuery
           limit == IF limitQuery = 0 THEN DefaultLimit ELSE limitQuery
       IN call' = [state |-> "count", op |-> "listPage",
                   authorization |-> authorization, page |-> page, limit |-> limit,
                   found |-> SkipLimit(SortNewestFirst(clips), (page - 1) * limit, limit)]
    /\ out' = NoOut
    /\ UNCHANGED <<issued, clips, likes, comments, nextClipId, nextLikeId, nextCommentId,
                   reqs, deleted200, hist>>

\* line 84: Clip.countDocuments(); then lines 87-117 start one task per clip,
\* each running up to its first await
ListCount ==
    /\ call.state = "count"
    /\ call' = [state |-> "enrich", op |-> call.op,
                authorization |-> call.authorization,
                page |-> call.page, limit |-> call.limit, found |-> call.found,
                total |-> Cardinality(clips),
                tasks |-> [i \in 1..Len(call.found) |-> [pc |-> "likes"]],
                results |-> [i \in 1..Len(call.found) |-> Pending],
                completed |-> <<>>]
    /\ out' = NoOut
    /\ UNCHANGED <<issued, clips, likes, comments, nextClipId, nextLikeId, nextCommentId,
                   reqs, deleted200, hist>>

\* GET /api/clips/:id  (clips.js 135-181).  Line 137 looks the clip up by
\* req.query.id; Mongoose turns findById(undefined) into a search for
\* _id null, which finds nothing.  queryId is NoId when the request has no
\* ?id= parameter.  Lines 137-143: Clip.findById, then 404 or the first count
ClipFind(authorization, paramsId, queryId) ==
    /\ GetIdle
    /\ IF queryId \notin ClipIds
       THEN /\ out' = [op |-> "getOne", authorization |-> authorization,
                       paramsId |-> paramsId, queryId |-> queryId, status |-> 404]
            /\ call' = [state |-> "responded", op |-> "getOne",
                        authorization |-> authorization,
                        paramsId |-> paramsId, queryId |-> queryId,
                        found |-> <<>>, completed |-> <<>>]
       ELSE /\ out' = NoOut
            /\ call' = [state |-> "enrich", op |-> "getOne",
                        authorization |-> authorization,
                        paramsId |-> paramsId, queryId |-> queryId,
                        found |-> <<ClipById(queryId)>>,
                        tasks |-> <<[pc |-> "likes"]>>,
                        results |-> <<Pending>>,
                        completed |-> <<>>]
    /\ UNCHANGED <<issued, clips, likes, comments, nextClipId, nextLikeId, nextCommentId,
                   reqs, deleted200, hist>>

\* GET /api/clips/user/:userId  (clips.js 186-212), lines 188-196:
\* Clip.find({ user }).sort(); then one task per clip is started
UserClipsFind(userId) ==
    /\ GetIdle
    /\ LET found == SortNewestFirst({c \in clips : c.user = userId})
       IN call' = [state |-> "enrich", op |-> "listByAuthor",
                   authorization |-> NoHeader, userId |-> userId,
                   found |-> found,
                   tasks |-> [i \in 1..Len(found) |-> [pc |-> "likes"]],
                   results |-> [i \in 1..Len(found) |-> Pending],
                   completed |-> <<>>]
    /\ out' = NoOut
    /\ UNCHANGED <<issued, clips, likes, comments, nextClipId, nextLikeId, nextCommentId,
                   reqs, deleted200, hist>>

\* GET /api/clips/:id/comments  (clips.js 322-370), lines 326-332:
\* Comment.find({ clip }).sort(); then one task per comment is started
CommentsFind(authorization, clipId) ==
    /\ GetIdle
    /\ LET found == SortNewestFirst({m \in comments : m.clip = clipId})
       IN call' = [state |-> "enrich", op |-> "listComments",
                   authorization |-> authorization, clip |-> clipId,
                   found |-> found,
                   tasks |-> [i \in 1..Len(found) |-> [pc |-> "likes"]],
                   results |-> [i \in 1..Len(found) |-> Pending],
                   completed |-> <<>>]
    /\ out' = NoOut
    /\ UNCHANGED <<issued, clips, likes, comments, nextClipId, nextLikeId, nextCommentId,
                   reqs, deleted200, hist>>

\* the order the tasks return in, recorded when the history is kept
Completed(i) ==
    IF hist = NoHistory THEN call.completed ELSE Append(call.completed, i)

\* one await of the task of item i.  A clip task counts the likes (lines 88,
\* 146, 197), then the comments (89, 147, 198); a comment task counts the
\* likes (333-336).  The isLiked lookup follows without a further await when
\* no viewer is resolved; the task then returns and its promise is settled.
EnrichStep(i) ==
    /\ call.state = "enrich"
    /\ i \in 1..Len(call.tasks)
    /\ LET item == call.found[i]
           task == call.tasks[i]
       IN \/ /\ call.op \in {"listPage", "getOne", "listByAuthor"}
             /\ task.pc = "likes"
             /\ call' = [call EXCEPT !.tasks[i] =
                             [pc |-> "comments", likesCount |-> CountClipLikes(item.id)]]
          \/ /\ call.op \in {"listPage", "getOne"} /\ task.pc = "comments"
             /\ call' = [call EXCEPT
                            !.tasks[i] = [pc |-> "done"],
                            !.results = Settle(call.results, i,
                                [id |-> item.id, user |-> item.user,
                                 likesCount |-> task.likesCount,
                                 commentsCount |-> CountComments(item.id),
                                 isLiked |-> IsLikedClip(call.authorization, item.id)]),
                            !.completed = Completed(i)]
          \/ /\ call.op = "listByAuthor" /\ task.pc = "comments"
             /\ call' = [call EXCEPT
                            !.tasks[i] = [pc |-> "done"],
                            !.results = Settle(call.results, i,
                                [id |-> item.id, user |-> item.user,
                                 likesCount |-> task.likesCount,
                                 commentsCount |-> CountComments(item.id)]),
                            !.completed = Completed(i)]
          \/ /\ call.op = "listComments" /\ task.pc = "likes"
             /\ call' = [call EXCEPT
                            !.tasks[i] = [pc |-> "done"],
                            !.results = Settle(call.results, i,
                                [id |-> item.id, user |-> item.user, clip |-> item.clip,
                                 likesCount |-> CountCommentLikes(item.id),
                                 isLiked |-> IsLikedComment(call.authorization, item.id)]),
                            !.completed = Completed(i)]
    /\ out' = NoOut
    /\ UNCHANGED <<issued, clips, likes, comments, nextClipId, nextLikeId, nextCommentId,
                   reqs, deleted200, hist>>

\* lines 119-125, 167-174, 207 and 365: every task has returned; the
\* response is sent
ListRespond ==
    /\ call.state = "enrich"
    /\ \A i \in 1..Len(call.tasks) : call.tasks[i].pc = "done"
    /\ out' = CASE call.op = "listPage" ->
                     [op |-> "listPage", authorization |-> call.authorization,
                      status |-> 200, clips |-> call.results,
                      page |-> call.page, limit |-> call.limit,
                      totalPages |-> CeilDiv(call.total, call.limit),
                      totalClips |-> call.total,
                      hasMore |-> (call.page * call.limit < call.total)]
                [] call.op = "getOne" ->
                     [op |-> "getOne", authorization |-> call.authorization,
                      paramsId |-> call.paramsId, queryId |-> call.queryId,
                      status |-> 200, clip |-> call.results[1]]
                [] call.op = "listByAuthor" ->
                     [op |-> "listByAuthor", userId |-> call.userId,
                      status |-> 200, clips |-> call.results]
                [] call.op = "listComments" ->
                     [op |-> "listComments", authorization |-> call.authorization,
                      clip |-> call.clip, status |-> 200, comments |-> call.results]
    /\ call' = [call EXCEPT !.state = "responded"]
    /\ UNCHANGED <<issued, clips, likes, comments, nextClipId, nextLikeId, nextCommentId,
                   reqs, deleted200, hist>>

\* the query that opens a GET handler (lines 76, 137, 190, 326) rejects: the
\* catch responds
GetLookupFails(op) ==
    /\ GetIdle
    /\ op \in {"listPage", "getOne", "listByAuthor", "listComments"}
    /\ out' = CatchResponse(op, NoViewer, NoId)
    /\ call' = [state |-> "responded", op |-> op, found |-> <<>>, completed |-> <<>>]
    /\ UNCHANGED <<issued, clips, likes, comments, nextClipId, nextLikeId, nextCommentId,
                   reqs, deleted200, hist>>

\* Clip.countDocuments rejects, or a task's await does: Promise.all rejects
\* with the first failure, the catch (126-129, 177-180, 208-211, 366-369)
\* responds, and what the other tasks return is dropped
ListFails ==
    /\ \/ call.state = "count"
       \/ /\ call.state = "enrich"
          /\ \E i \in 1..Len(call.tasks) : call.tasks[i].pc # "done"
    /\ out' = CatchResponse(call.op, NoViewer, NoId)
    /\ call' = [call EXCEPT !.state = "responded"]
    /\ UNCHANGED <<issued, clips, likes, comments, nextClipId, nextLikeId, nextCommentId,
                   reqs, deleted200, hist>>

(***************************************************************************)
(* Specifications.                                                         *)
(***************************************************************************)
InitWith(history) ==
    /\ clips = {}
    /\ likes = {}
    /\ comments = {}
    /\ nextClipId = 1
    /\ nextLikeId = 1
    /\ nextCommentId = 1
    /\ reqs = [r \in Slots |-> Idle]
    /\ out = NoOut
    /\ issued = 0
    /\ deleted200 = {}
    /\ hist = history

Init == InitWith(NoHistory) /\ call = NoCall

\* a new request takes the lowest free handler slot
FreeSlot(among) ==
    {r \in among : reqs[r].op = "idle" /\ \A s \in among : s < r => reqs[s].op # "idle"}

GoodProvider == [ok |-> TRUE, duration |-> 125, thumbnail |-> <<"t">>]
\* the ids a request names: those handed out so far and one unknown id
RequestClipIds == 1..nextClipId
\* one more POST /clips keeps the clips created within max: the handlers
\* awaiting extractVideoInfo have not drawn the _id of their clip yet
RoomForClip(max) ==
    nextClipId + Cardinality({r \in Slots : reqs[r].op = "create" /\ reqs[r].pc = "extract"}) <= max

\* Spec: the write routes, with up to MaxReqs handlers interleaving their
\* store operations.
Next ==
    \/ \E r \in FreeSlot(Slots), u \in Users :
          /\ issued < MaxRequests /\ RoomForClip(MaxClips)
          /\ CreateReceive(r, u, ShortUrl, ShortTitle, Undefined, Undefined, Undefined)
    \/ \E r \in Slots : CreateExtract(r, GoodProvider)
    \/ \E r \in Slots : CreateSave(r)
    \/ \E r \in Slots : CreatePopulate(r)
    \/ \E r \in FreeSlot(Slots), u \in Users, c \in RequestClipIds :
          issued < MaxRequests /\ LikeFindClip(r, u, c)
    \/ \E r \in Slots : LikeFindOne(r)
    \/ \E r \in Slots : LikeDelete(r)
    \/ \E r \in Slots : LikeSave(r)
    \/ \E r \in Slots : LikeCount(r)
    \/ \E r \in FreeSlot(Slots), u \in Users, c \in RequestClipIds :
          issued < MaxRequests /\ CommentFindClip(r, u, c, ShortContent)
    \/ \E r \in Slots : CommentSave(r)
    \/ \E r \in Slots : CommentPopulate(r)
    \/ \E r \in FreeSlot(Slots), u \in Users, c \in RequestClipIds :
          issued < MaxRequests /\ DeleteFindClip(r, u, c)
    \/ \E r \in Slots : DeleteComments(r)
    \/ \E r \in Slots : DeleteLikes(r)
    \/ \E r \in Slots : DeleteClipDoc(r)

Spec == Init /\ [][Next]_vars

\* The write routes of a client that awaits each response before its next
\* request (one handler at a time), with the request history kept.
SeqWrites(maxRequests, maxClips) ==
    \/ \E u \in Users, url \in {ShortUrl, OtherUrl, NotAUrl} :
          /\ issued < maxRequests /\ nextClipId <= maxClips
          /\ CreateReceive(1, u, url, ShortTitle, Undefined, Undefined, Undefined)
    \/ CreateExtract(1, GoodProvider)
    \/ CreateSave(1)
    \/ CreatePopulate(1)
    \/ \E u \in Users, c \in RequestClipIds :
          issued < maxRequests /\ LikeFindClip(1, u, c)
    \/ LikeFindOne(1)
    \/ LikeDelete(1)
    \/ LikeSave(1)
    \/ LikeCount(1)
    \/ \E u \in Users, c \in RequestClipIds, content \in {<<>>, BlankContent, CrContent, ShortContent} :
          issued < maxRequests /\ CommentFindClip(1, u, c, content)
    \/ CommentSave(1)
    \/ CommentPopulate(1)
    \/ \E u \in Users, c \in RequestClipIds :
          issued < maxRequests /\ DeleteFindClip(1, u, c)
    \/ DeleteComments(1)
    \/ DeleteLikes(1)
    \/ DeleteClipDoc(1)

InitSeq == InitWith(<<>>) /\ call = NoCall
NextSeq == SeqWrites(MaxSeqRequests, MaxSeqClips)
SpecSeq == InitSeq /\ [][NextSeq]_vars

\* SpecFeed: the same client also reads through the public GET routes, still
\* one request at a time.
NextFeed ==
    \/ GetIdle /\ SeqWrites(MaxFeedRequests, MaxClips)
    \/ \E a \in AuthHeaders, pg \in 0..1 :
          AllIdle /\ ListFind(a, pg, 0)
    \/ ListCount
    \/ \E a \in AuthHeaders, c \in RequestClipIds, q \in {NoId} \cup RequestClipIds :
          AllIdle /\ ClipFind(a, c, q)
    \/ \E u \in Users : AllIdle /\ UserClipsFind(u)
    \/ \E a \in AuthHeaders, c \in RequestClipIds : AllIdle /\ CommentsFind(a, c)
    \/ \E i \in 1..MaxFeedRequests : EnrichStep(i)
    \/ ListRespond

SpecFeed == Init /\ [][NextFeed]_vars

\* SpecPage: one author fills the feed, and pages of it are read, one
\* request at a time: pages of 1..MaxLimit clips at any time, pages of the
\* default size once the feed is full.  The count queries of a page are
\* answered in any order.
NextPage ==
    \/ /\ GetIdle /\ nextClipId <= MaxPageClips
       /\ CreateReceive(1, "u1", ShortUrl, ShortTitle, Undefined, Undefined, Undefined)
    \/ CreateExtract(1, GoodProvider)
    \/ CreateSave(1)
    \/ CreatePopulate(1)
    \/ \E pg \in 0..MaxPage, lim \in 1..MaxLimit :
          AllIdle /\ ListFind(NoHeader, pg, lim)
    \/ \E pg \in 0..MaxPage :
          AllIdle /\ nextClipId > MaxPageClips /\ ListFind(NoHeader, pg, 0)
    \/ ListCount
    \/ \E i \in 1..(DefaultLimit + MaxLimit) : EnrichStep(i)
    \/ ListRespond

SpecPage == Init /\ [][NextPage]_vars

\* SpecCreate: one POST /api/clips whose time texts and provider outcome
\* Init draws in `call`; the handler then runs on it.
TimeChars == {"1", ":", "-"}
TimeTexts ==
    {Undefined} \cup UNION {[1..n -> TimeChars] : n \in 0..MaxTimeLen}
ProviderOutcomes ==
    {[ok |-> FALSE, duration |-> 0, thumbnail |-> <<>>],
     [ok |-> TRUE, duration |-> 0, thumbnail |-> <<"t">>],
     [ok |-> TRUE, duration |-> 59, thumbnail |-> <<>>],
     [ok |-> TRUE, duration |-> 3600, thumbnail |-> <<"t">>],
     [ok |-> TRUE, duration |-> 3725, thumbnail |-> <<"t">>]}

InitCreate ==
    /\ InitWith(NoHistory)
    /\ call \in [state : {"received"}, youtubeUrl : {ShortUrl}, title : {ShortTitle},
                 description : {Undefined},
                 startTime : TimeTexts, endTime : TimeTexts,
                 provider : ProviderOutcomes, store : {"ok"}]

\* the handler runs on the request drawn, with the provider and the store
\* behaving as drawn
HandleCreate ==
    \/ /\ issued = 0
       /\ CreateReceive(1, "u1", call.youtubeUrl, call.title, call.description,
                        call.startTime, call.endTime)
    \/ CreateExtract(1, call.provider)
    \/ call.store # "saveFails" /\ CreateSave(1)
    \/ call.store # "populateFails" /\ CreatePopulate(1)

\* the store call drawn to fail rejects
HandleCreateFails ==
    /\ \/ call.store = "saveFails" /\ reqs[1].pc = "save"
       \/ call.store = "populateFails" /\ reqs[1].pc = "populate"
    /\ StoreFails(1)

NextCreate == HandleCreate
SpecCreate == InitCreate /\ [][NextCreate]_vars

\* SpecIngest: one POST /api/clips whose URL, title, description, time
\* texts, provider outcome and store outcome Init draws.
IngestUrls == {ShortUrl, WatchUrl, OtherUrl, NotAUrl}
IngestTitles ==
    {<<>>, BlankTitle, CrTitle, ShortTitle, PaddedTitle, LineEndTitle, LongPaddedTitle,
     AstralTitle, AstralPlainTitle}
IngestDescriptions == {Undefined, ShortDescription, BlankDescription, AstralDescription}
IngestTimes == {Undefined, <<"1", ":", "1">>, <<"-", ":", "1">>}

InitIngest ==
    /\ InitWith(NoHistory)
    /\ call \in [state : {"received"}, youtubeUrl : IngestUrls, title : IngestTitles,
                 description : IngestDescriptions,
                 startTime : IngestTimes, endTime : IngestTimes,
                 provider : ProviderOutcomes, store : StoreOutcomes]

NextIngest == HandleCreate \/ HandleCreateFails
SpecIngest == InitIngest /\ [][NextIngest]_vars

\* SpecEnrich: one GET /api/clips or GET /api/clips/:id/comments runs await
\* by await while clips and comments are written.
NextEnrich ==
    \/ \E u \in Users :
          /\ issued < MaxEnrichRequests /\ nextClipId <= MaxEnrichClips
          /\ CreateReceive(1, u, ShortUrl, ShortTitle, Undefined, Undefined, Undefined)
    \/ CreateExtract(1, GoodProvider)
    \/ CreateSave(1)
    \/ CreatePopulate(1)
    \/ \E c \in ClipIds :
          /\ issued < MaxEnrichRequests
          /\ CommentFindClip(1, "u1", c, LineEndContent)
    \/ CommentSave(1)
    \/ CommentPopulate(1)
    \/ \E a \in {NoHeader, "u1"}, lim \in {0, 2} : call = NoCall /\ ListFind(a, 1, lim)
    \/ ListCount
    \/ \E a \in {NoHeader, "u1"}, c \in ClipIds : call = NoCall /\ CommentsFind(a, c)
    \/ \E i \in 1..MaxEnrichRequests : EnrichStep(i)
    \/ ListRespond

SpecEnrich == InitWith(LogStart) /\ call = NoCall /\ [][NextEnrich]_vars

\* SpecToggle: one viewer creates a clip and toggles its like, with up to
\* MaxReqs toggle handlers interleaving; every completed request is logged.
InitToggle == InitWith(LogStart) /\ call = NoCall

NextToggle ==
    \/ /\ issued < MaxToggleRequests /\ nextClipId <= 1
       /\ CreateReceive(1, "u1", ShortUrl, ShortTitle, Undefined, Undefined, Undefined)
    \/ CreateExtract(1, GoodProvider)
    \/ CreateSave(1)
    \/ CreatePopulate(1)
    \/ \E r \in FreeSlot(Slots), c \in ClipIds :
          issued < MaxToggleRequests /\ LikeFindClip(r, "u1", c)
    \/ \E r \in Slots : LikeFindOne(r)
    \/ \E r \in Slots : LikeDelete(r)
    \/ \E r \in Slots : LikeSave(r)
    \/ \E r \in Slots : LikeCount(r)

SpecToggle == InitToggle /\ [][NextToggle]_vars

\* SpecLive: the handlers with every store call, provider call and token
\* verification free to fail: one like handler next to one other write
\* handler, next to the GET in flight.  An awaited call settles, one way or
\* the other, so every step of a handler in flight is taken eventually.
FailedProvider == [ok |-> FALSE, duration |-> 0, thumbnail |-> <<>>]

HandlerStep(r) ==
    \/ CreateExtract(r, FailedProvider)
    \/ CreateExtract(r, GoodProvider)
    \/ CreateSave(r)
    \/ CreatePopulate(r)
    \/ LikeFindOne(r)
    \/ LikeDelete(r)
    \/ LikeSave(r)
    \/ LikeCount(r)
    \/ CommentSave(r)
    \/ CommentPopulate(r)
    \/ DeleteComments(r)
    \/ DeleteLikes(r)
    \/ DeleteClipDoc(r)
    \/ StoreFails(r)

GetStep ==
    \/ ListCount
    \/ \E i \in 1..MaxLiveClips : EnrichStep(i)
    \/ ListRespond
    \/ ListFails

NextLive ==
    \/ \E r \in FreeSlot({1}), title \in {CrTitle, ShortTitle} :
          /\ issued < MaxLiveRequests /\ RoomForClip(MaxLiveClips)
          /\ CreateReceive(r, "u1", ShortUrl, title, Undefined, Undefined, Undefined)
    \/ \E r \in FreeSlot({2}), c \in RequestClipIds :
          issued < MaxLiveRequests /\ LikeFindClip(r, "u1", c)
    \/ \E r \in FreeSlot({1}), c \in RequestClipIds, content \in {ShortContent, AstralContent} :
          issued < MaxLiveRequests /\ CommentFindClip(r, "u1", c, content)
    \/ \E r \in FreeSlot({1}), c \in RequestClipIds :
          issued < MaxLiveRequests /\ DeleteFindClip(r, "u1", c)
    \/ \E op \in {"like", "comment", "delete"}, c \in RequestClipIds :
          issued < MaxLiveRequests /\ FirstLookupFails(op, "u1", c)
    \/ \E r \in Slots : HandlerStep(r)
    \/ call = NoCall /\ ListFind(BadToken, 1, 0)
    \/ call = NoCall /\ GetLookupFails("listPage")
    \/ GetStep

SpecLive ==
    /\ Init /\ [][NextLive]_vars
    /\ \A r \in Slots : WF_vars(HandlerStep(r))
    /\ WF_vars(GetStep)

\* SpecExtract: extractVideoId is applied to the short-link, embed and watch
\* forms of one video reference, and to a URL of another site with the same
\* tail.
ShortForm == <<"h", "t", "t", "p", "s", ":", "/", "/", "y", "o", "u", "t", "u", ".", "b", "e", "/">>
EmbedForm == <<"h", "t", "t", "p", "s", ":", "/", "/", "w", "w", "w", ".", "y", "o", "u", "t", "u", "b", "e", ".", "c", "o", "m", "/", "e", "m", "b", "e", "d", "/">>
WatchForm == <<"h", "t", "t", "p", "s", ":", "/", "/", "w", "w", "w", ".", "y", "o", "u", "t", "u", "b", "e", ".", "c", "o", "m", "/", "w", "a", "t", "c", "h", "?", "v", "=">>
OtherSites ==
    {<<"h", "t", "t", "p", "s", ":", "/", "/", "e", "x", "a", "m", "p", "l", "e", ".", "c", "o", "m", "/", "c", "l", "i", "p", "s", "/">>,
     <<"h", "t", "t", "p", "s", ":", "/", "/", "e", "x", "a", "m", "p", "l", "e", ".", "c", "o", "m", "/", "t", "v", "/">>,
     <<"h", "t", "t", "p", "s", ":", "/", "/", "v", "i", "m", "e", "o", ".", "c", "o", "m", "/", "w", "a", "t", "c", "h", "?", "v", "=">>}
ExtractTokens ==
    {<<"d", "Q", "w", "4", "w", "9", "W", "g", "X", "c", "Q">>,
     <<"a", "-", "b", "_", "c", "-", "d", "_", "e", "-", "f">>,
     <<"d", "Q", "w", "4", "w", "9", "W", "g", "X", "c">>,
     <<"d", "Q", "w", "4", "w", "9", "W", "g", "X", "c", "Q", "x">>,
     <<"4", "2">>,
     <<>>}
ExtractSuffixes ==
    {<<>>,
     <<"?", "t", "=", "3", "0">>,
     <<"&", "f", "e", "a", "t", "u", "r", "e", "=", "y", "o", "u", "t", "u", ".", "b", "e">>,
     <<"#", "t", "=", "1", "m">>}

InitExtract ==
    /\ InitWith(NoHistory)
    /\ call \in [state : {"drawn"}, token : ExtractTokens, suffix : ExtractSuffixes,
                 site : OtherSites]

Extract ==
    /\ call.state = "drawn"
    /\ LET tail == call.token \o call.suffix
       IN call' = [state |-> "extracted", token |-> call.token,
                   suffix |-> call.suffix, site |-> call.site,
                   short |-> extractVideoId(ShortForm \o tail),
                   embed |-> extractVideoId(EmbedForm \o tail),
                   watch |-> extractVideoId(WatchForm \o tail),
                   other |-> extractVideoId(call.site \o tail)]
    /\ UNCHANGED <<clips, likes, comments, nextClipId, nextLikeId, nextCommentId,
                   reqs, out, issued, deleted200, hist>>

NextExtract == Extract
SpecExtract == InitExtract /\ [][NextExtract]_vars

\* SpecRoundTrip: a provider duration is rendered as extractVideoInfo
\* renders it, and the text is read back by timeToSeconds.
InitRoundTrip ==
    /\ InitWith(NoHistory)
    /\ call \in [state : {"drawn"}, seconds : 0..MaxSeconds]

RoundTrip ==
    /\ call.state = "drawn"
    /\ LET text == FormatFull(call.seconds)
       IN call' = [state |-> "done", seconds |-> call.seconds, text |-> text,
                   parsed |-> timeToSeconds(text)]
    /\ UNCHANGED <<clips, likes, comments, nextClipId, nextLikeId, nextCommentId,
                   reqs, out, issued, deleted200, hist>>

NextRoundTrip == RoundTrip
SpecRoundTrip == InitRoundTrip /\ [][NextRoundTrip]_vars

\* SpecParse: timeToSeconds is applied to a time text of up to MaxSegments
\* segments joined by colons.
ParseSegments ==
    {<<>>, <<"0">>, <<"0", "0">>, <<"1">>, <<"2">>, <<"0", "2">>, <<"0", "3">>,
     <<"3", "0">>, <<"x">>}

RECURSIVE JoinColon(_)
JoinColon(segments) ==
    IF Len(segments) = 1 THEN segments[1]
    ELSE segments[1] \o <<":">> \o JoinColon(Tail(segments))

ParseTexts ==
    {JoinColon(segments) :
        segments \in UNION {[1..n -> ParseSegments] : n \in 1..MaxSegments}}

InitParse ==
    /\ InitWith(NoHistory)
    /\ call \in [state : {"drawn"}, text : ParseTexts]

Parse ==
    /\ call.state = "drawn"
    /\ call' = [state |-> "parsed", text |-> call.text,
                parsed |-> timeToSeconds(call.text)]
    /\ UNCHANGED <<clips, likes, comments, nextClipId, nextLikeId, nextCommentId,
                   reqs, out, issued, deleted200, hist>>

NextParse == Parse
SpecParse == InitParse /\ [][NextParse]_vars

(***************************************************************************)
(* Properties.                                                             *)
(***************************************************************************)
ClipLikesOf(u, c) == {l \in likes : l.user = u /\ l.clip = c /\ l.type = "clip"}
Min(a, b) == IF a < b THEN a ELSE b
Max(a, b) == IF a < b THEN b ELSE a

\* C1: in every reachable state, whatever the interleaving of the like
\* handlers, the Like collection holds at most one document with a given
\* (user, clip, type = 'clip').
C1_LikeUniqueness ==
    \A l1 \in likes, l2 \in likes :
        (l1.type = "clip" /\ l2.type = "clip" /\ l1.user = l2.user /\ l1.clip = l2.clip)
            => l1 = l2

\* two toggles of one viewer on one clip both found no like; one saved its
\* Like and the save of the other was rejected
C1_Witness ==
    /\ out.op = "like" /\ out.status = 500
    /\ ClipLikesOf(out.user, out.clip) # {}

\* C2: two toggles of one viewer on one existing clip, run one after the
\* other with no request between them, leave the Like collection as it was
\* before the first, and the second response carries the isLiked and the
\* likesCount that held before the first.
C2_ToggleTwiceRestores ==
    (/\ Len(hist) = 2
     /\ hist[1].op = "like" /\ hist[2].op = "like"
     /\ hist[1].user = hist[2].user /\ hist[1].clip = hist[2].clip
     /\ hist[1].response.status # 404 /\ hist[2].response.status # 404)
    => /\ hist[2].after = hist[1].before
       /\ hist[2].response.status = 200
       /\ hist[2].response.isLiked =
              (<<hist[1].user, hist[1].clip, "clip">> \in hist[1].before)
       /\ hist[2].response.likesCount =
              Cardinality({k \in hist[1].before :
                              k[2] = hist[1].clip /\ k[3] = "clip"})

\* C3: once a DELETE of a clip has responded 200, no Comment of that clip
\* and no clip-kind Like on it is in the collections, then and ever after.
C3_NoOrphansAfterDelete ==
    \A c \in deleted200 :
        /\ {m \in comments : m.clip = c} = {}
        /\ {l \in likes : l.clip = c /\ l.type = "clip"} = {}

\* C4: a DELETE of an existing clip by a user who does not own it responds
\* 403 and leaves the Clip, Comment and Like collections as they were.
C4_ForbiddenDeleteChangesNothing ==
    [][(/\ out'.op = "delete"
        /\ out'.clip \in ClipIds
        /\ ClipById(out'.clip).user # out'.user)
       => (/\ out'.status = 403
           /\ UNCHANGED <<clips, comments, likes>>)]_vars

\* a non-owner was refused the deletion of a clip that has likes or comments
C4_Witness ==
    /\ out.op = "delete" /\ out.status = 403
    /\ out.clip \in ClipIds
    /\ ClipById(out.clip).user # out.user
    /\ CountComments(out.clip) + CountClipLikes(out.clip) > 0

\* C5: for a GET /clips, GET /clips/:id or GET /clips/:id/comments carrying
\* a valid bearer token of viewer v, each returned item has isLiked = true
\* exactly when the Like collection holds a like of v for that item of the
\* matching kind.
C5_ViewerSeesOwnLikes ==
    /\ (out.op = "listPage" /\ out.authorization \in Users)
       => \A i \in 1..Len(out.clips) :
             out.clips[i].isLiked = (ClipLikesOf(out.authorization, out.clips[i].id) # {})
    /\ (out.op = "getOne" /\ out.authorization \in Users /\ out.status = 200)
       => out.clip.isLiked = (ClipLikesOf(out.authorization, out.clip.id) # {})
    /\ (out.op = "listComments" /\ out.authorization \in Users)
       => \A i \in 1..Len(out.comments) :
             out.comments[i].isLiked =
                 (\E l \in likes : /\ l.user = out.authorization
                                   /\ l.comment = out.comments[i].id
                                   /\ l.type = "comment")

\* C6: a GET /clips with no Authorization header, or with a token that
\* fails verification, responds 200 with the full page, and every item has
\* isLiked = false whatever likes are stored.
C6_AnonymousFeedUnpersonalized ==
    (out.op = "listPage" /\ out.authorization \in {NoHeader, BadToken})
    => /\ out.status = 200
       /\ Len(out.clips) =
              Min(out.limit, Max(0, Cardinality(clips) - (out.page - 1) * out.limit))
       /\ \A i \in 1..Len(out.clips) :
             /\ ~out.clips[i].isLiked
             /\ \E c \in clips :
                   /\ c.id = out.clips[i].id
                   /\ Cardinality({d \in clips : d.id > c.id})
                          = (out.page - 1) * out.limit + i - 1

\* a feed read with a bad token returned a clip that has a like stored
C6_Witness ==
    /\ out.op = "listPage" /\ out.authorization = BadToken
    /\ \E i \in 1..Len(out.clips) : out.clips[i].likesCount > 0

\* C7: GET /clips/:id responds 200 with the enriched clip whenever a clip
\* with the id of the path exists, and 404 only when none exists.
C7_GetOneFindsPathId ==
    out.op = "getOne"
    => /\ out.paramsId \in ClipIds => (out.status = 200 /\ out.clip.id = out.paramsId)
       /\ out.status = 404 => out.paramsId \notin ClipIds

\* C8: with T clips stored, page size L >= 1 and page p >= 1, the feed page
\* holds min(L, max(0, T - (p-1)L)) items, totalClips = T, totalPages =
\* ceil(T / L), and hasMore is true exactly when p * L < T.
C8_Pagination ==
    out.op = "listPage"
    => LET T == Cardinality(clips)
           L == out.limit
           p == out.page
       IN /\ Len(out.clips) = Min(L, Max(0, T - (p - 1) * L))
          /\ out.totalClips = T
          /\ out.totalPages * L >= T /\ (out.totalPages - 1) * L < T
          /\ out.hasMore = (p * L < T)

\* 25 clips in pages of 10: the third page holds 5 and ends the feed
C8_Witness ==
    /\ out.op = "listPage" /\ Cardinality(clips) = 25
    /\ out.limit = 10 /\ out.page = 3
    /\ Len(out.clips) = 5 /\ ~out.hasMore /\ out.totalPages = 3

\* C9: every Clip created through POST /clips whose endTimeSeconds is not
\* null has endTimeSeconds > startTimeSeconds, whatever time texts the
\* client submitted.
C9_TrimWindowOrdered ==
    \A c \in clips :
        c.endTimeSeconds.t = "num" => c.endTimeSeconds.v > c.startTimeSeconds.v

\* the renderings the claim names
TwoDigits(n) == <<Digits[(n \div 10) + 1], Digits[(n % 10) + 1]>>
RenderMinSec(n) == ToDigits(n \div 60) \o <<":">> \o TwoDigits(n % 60)
RenderHourMinSec(n) ==
    ToDigits(n \div 3600) \o <<":">> \o TwoDigits((n % 3600) \div 60)
        \o <<":">> \o TwoDigits(n % 60)
RenderFull(n) == IF n >= 3600 THEN RenderHourMinSec(n) ELSE RenderMinSec(n)

\* extractVideoInfo has returned to the handler, which holds its result
Extracted == reqs[1].op = "create" /\ reqs[1].pc = "save"
VideoInfo == reqs[1].data.videoInfo
EndAfterStart ==
    /\ VideoInfo.endTimeSeconds.t = "num"
    /\ VideoInfo.startTimeSeconds.t = "num"
    /\ VideoInfo.endTimeSeconds.v > VideoInfo.startTimeSeconds.v
TrimSpan == VideoInfo.endTimeSeconds.v - VideoInfo.startTimeSeconds.v

\* C10 as claimed: the duration string is the trim span as m:ss exactly when
\* endSeconds > startSeconds, and in every other case the provider's full
\* duration as h:mm:ss (>= 3600 s) or m:ss.
C10_DurationAsClaimed ==
    Extracted
    => VideoInfo.duration =
           IF EndAfterStart THEN RenderMinSec(TrimSpan)
           ELSE RenderFull(call.provider.duration)

\* C10, amended: the duration string is the trim span as m:ss exactly when
\* endSeconds is a non-zero number greater than startSeconds; in every other
\* case it is the provider's full duration as h:mm:ss (>= 3600 s) or m:ss,
\* and the empty string when the provider reports no (zero) duration.
C10_Duration ==
    Extracted
    => VideoInfo.duration =
           IF EndAfterStart /\ VideoInfo.endTimeSeconds.v # 0
           THEN RenderMinSec(TrimSpan)
           ELSE IF call.provider.duration = 0 THEN <<>>
           ELSE RenderFull(call.provider.duration)

\* a trim window of an hour was rendered in minutes, over a video whose full
\* duration has hours
C10_Witness ==
    /\ Extracted /\ EndAfterStart /\ TrimSpan >= 3600
    /\ call.provider.duration >= 3600
    /\ VideoInfo.duration = RenderMinSec(TrimSpan)

\* what went wrong in a POST /api/clips that passed the route validators
Handled == issued = 1 /\ reqs[1].op = "idle"
ExtractionFails ==
    extractVideoId(call.youtubeUrl) = NoVideoId \/ ~call.provider.ok
PersistenceFails ==
    /\ ~ExtractionFails
    /\ \/ timeToSeconds(IF call.startTime = Undefined THEN <<"0", ":", "0", "0">>
                         ELSE call.startTime).t = "nan"
       \/ /\ call.endTime \notin {Undefined, <<>>}
          /\ timeToSeconds(call.endTime).t = "nan"
       \/ Utf16Length(Trim(call.title)) > TitleMax
       \/ /\ call.description # Undefined
          /\ Utf16Length(Trim(call.description)) > DescriptionMax
       \/ call.store # "ok"

\* C11: for a POST /clips that passed validation, a failure inside
\* extraction (no video id, provider failure) responds 400 with the fixed
\* extraction message and stores no Clip; a failure after extraction (the
\* save or the populate) responds 500; and the response is 201 exactly when
\* nothing failed, with exactly one new Clip stored.
C11_CreateFailureClasses ==
    (Handled /\ BodyValid(call.youtubeUrl, call.title, call.description))
    => /\ ExtractionFails
          => (out.status = 400 /\ out.message = ExtractionFailedMessage /\ clips = {})
       /\ PersistenceFails => out.status = 500
       /\ (out.status = 201) = (~ExtractionFails /\ ~PersistenceFails)
       /\ out.status = 201 => (Cardinality(clips) = 1 /\ nextClipId = 2)

\* the step in which a request of kind op naming clip c is received: it is
\* answered at once, or a handler starts on it
Received(op, c) ==
    /\ issued' = issued + 1
    /\ \/ out'.op = op /\ out'.clip = c
       \/ \E r \in Slots : reqs[r].op = "idle" /\ reqs'[r].op = op /\ reqs'[r].clip = c
\* the content of the comment request received passed the route validator
ReceivedContentValid == out'.op = "comment" => ContentValid(out'.content)

\* C12 as claimed: a toggleLike or addComment request naming a clip id that
\* is not in the Clip collection responds 404 and adds no Like and no
\* Comment.
C12_MissingClipAsClaimed ==
    [][\A c \in RequestClipIds :
          (c \notin ClipIds /\ (Received("like", c) \/ Received("comment", c)))
          => (/\ out'.op \in {"like", "comment"}
              /\ out'.status = 404
              /\ UNCHANGED <<likes, comments>>)]_vars

\* C12, amended: a toggleLike request, or an addComment request whose content
\* passes validation, naming a clip id that is not in the Clip collection
\* responds 404 and adds no Like and no Comment.
C12_MissingClip ==
    [][\A c \in RequestClipIds :
          (/\ c \notin ClipIds
           /\ \/ Received("like", c)
              \/ Received("comment", c) /\ ReceivedContentValid)
          => (/\ out'.op \in {"like", "comment"}
              /\ out'.status = 404
              /\ UNCHANGED <<likes, comments>>)]_vars

\* a valid comment on an id that names no clip is refused while the likes
\* and comments of an existing clip stay in the collections
C12_Witness ==
    /\ out.op = "comment" /\ out.status = 404
    /\ ContentValid(out.content)
    /\ out.clip \notin ClipIds
    /\ likes # {} /\ comments # {}

\* C13: for every integer s in 0..359999, timeToSeconds applied to the
\* duration text rendered for s gives s.
C13_RoundTrip ==
    call.state = "done" => call.parsed = Num(call.seconds)

\* the last second of the range, 99:59:59, was rendered and read back
C13_Witness ==
    /\ call.state = "done" /\ call.seconds = 359999
    /\ call.text = <<"9", "9", ":", "5", "9", ":", "5", "9">>
    /\ call.parsed = Num(359999)

\* the reading of a time text the claim gives
Colons(text) == {i \in 1..Len(text) : text[i] = ":"}
FirstColon(text) == CHOOSE i \in Colons(text) : \A j \in Colons(text) : i <= j
LastColon(text) == CHOOSE i \in Colons(text) : \A j \in Colons(text) : j <= i
IsNumeral(segment) == segment # <<>> /\ AllDigits(segment)

\* C14: timeToSeconds gives 0 for the empty text and for "0:00", 60m + s
\* for a text m:s of two numerals, 3600h + 60m + s for a text h:m:s of
\* three numerals, and 0 for a text with any other number of segments; so
\* "2:30" gives 150 and "1:02:03" gives 3723.
C14_Parse ==
    call.state = "parsed"
    => LET text == call.text
           head == SubSeq(text, 1, FirstColon(text) - 1)
           middle == SubSeq(text, FirstColon(text) + 1, LastColon(text) - 1)
           last == SubSeq(text, LastColon(text) + 1, Len(text))
       IN /\ text \in {<<>>, <<"0", ":", "0", "0">>} => call.parsed = Num(0)
          /\ (Cardinality(Colons(text)) = 1 /\ IsNumeral(head) /\ IsNumeral(last))
             => call.parsed = Num(60 * DecimalValue(head) + DecimalValue(last))
          /\ (Cardinality(Colons(text)) = 2 /\ IsNumeral(head) /\ IsNumeral(middle)
                  /\ IsNumeral(last))
             => call.parsed = Num(3600 * DecimalValue(head) + 60 * DecimalValue(middle)
                                     + DecimalValue(last))
          /\ Cardinality(Colons(text)) \notin {1, 2} => call.parsed = Num(0)
          /\ text = <<"2", ":", "3", "0">> => call.parsed = Num(150)
          /\ text = <<"1", ":", "0", "2", ":", "0", "3">> => call.parsed = Num(3723)

\* "1:02:03" was read as 3723 seconds
C14_Witness ==
    /\ call.state = "parsed"
    /\ call.text = <<"1", ":", "0", "2", ":", "0", "3">>
    /\ call.parsed = Num(3723)

\* C15: the items of a GET /clips or GET /clips/:id/comments response are in
\* creation-time-descending order, the order the query returned them in,
\* whatever order the enrichment tasks completed in.
C15_ResponseKeepsQueryOrder ==
    (out.op \in {"listPage", "listComments"} /\ call.state = "responded")
    => LET items == IF out.op = "listPage" THEN out.clips ELSE out.comments
       IN /\ Len(items) = Len(call.found)
          /\ \A i \in 1..Len(items) : items[i].id = call.found[i].id
          /\ \A i \in 1..Len(items), j \in 1..Len(items) :
                i < j => items[i].id > items[j].id

\* a page of three clips was sent after the task of the last clip completed
\* first and the task of the first clip last
C15_Witness ==
    /\ out.op = "listPage" /\ call.state = "responded"
    /\ Len(out.clips) = 3
    /\ call.completed = <<3, 2, 1>>

\* C16: every request to a clips handler gets exactly one response, whatever
\* fails inside the handler: the step that ends a handler sends its
\* response, a step that does not end it sends none, a request is either
\* answered in the step that receives it or a handler starts on it, and
\* every handler in flight ends.
C16_EveryRequestAnswered ==
    /\ [][/\ \A r \in Slots :
               /\ (reqs[r].op # "idle" /\ reqs'[r].op = "idle")
                  => (out'.op = reqs[r].op /\ out'.status \in {200, 201, 400, 500})
               /\ (reqs'[r].op # "idle" /\ reqs'[r] # reqs[r]) => out' = NoOut
          /\ (issued' = issued + 1)
             => ((out' # NoOut) # (\E r \in Slots : reqs[r].op = "idle" /\ reqs'[r].op # "idle"))
          /\ (call.state \in {"count", "enrich"} /\ call' # call)
             => IF call'.state = "responded"
                THEN out'.op = call.op /\ out'.status \in {200, 500}
                ELSE out' = NoOut
          /\ (GetIdle /\ call' # call)
             => IF call'.state = "responded"
                THEN out'.op = call'.op /\ out'.status \in {404, 500}
                ELSE out' = NoOut]_vars
    /\ \A r \in Slots : (reqs[r].op # "idle") ~> (reqs[r].op = "idle")
    /\ (call.state \in {"count", "enrich"}) ~> (call.state = "responded")

\* a POST /api/clips was answered 500 when its populate call failed, after
\* its clip had been stored and liked
C16_Witness ==
    /\ out.op = "create" /\ out.status = 500
    /\ clips # {} /\ likes # {}

\* C17: extractVideoId returns the same 11-character identifier for the
\* short-link, embed and watch?v= forms of one video reference, and none
\* when the captured token is not exactly 11 characters long or when the
\* URL does not reference the video platform.
C17_ExtractId ==
    call.state = "extracted"
    => /\ Len(call.token) = 11
          => (call.short = call.token /\ call.embed = call.token
              /\ call.watch = call.token)
       /\ Len(call.token) # 11
          => (call.short = NoVideoId /\ call.embed = NoVideoId
              /\ call.watch = NoVideoId)
       /\ call.other = NoVideoId

\* C18: a toggle by viewer v on an existing clip c that ran alone removed the
\* (v, c, clip) Like and responded isLiked = false if that Like existed, and
\* otherwise created it and responded isLiked = true; the likesCount it
\* returned is the number of clip Likes on c afterwards, and no other Like
\* was added or removed.
C18_ToggleAlone ==
    \A i \in 1..Len(hist) :
        (hist[i].op = "like" /\ hist[i].response.status # 404)
        => LET e == hist[i]
               key == <<e.user, e.clip, "clip">>
           IN /\ e.response.status = 200
              /\ e.response.isLiked = (key \notin e.before)
              /\ e.after = IF key \in e.before THEN e.before \ {key}
                           ELSE e.before \cup {key}
              /\ e.response.likesCount =
                     Cardinality({k \in e.after : k[2] = e.clip /\ k[3] = "clip"})

\* the counts of a returned clip are those of the collections
CountsMatch(item) ==
    /\ item.likesCount = Cardinality({l \in likes : l.clip = item.id /\ l.type = "clip"})
    /\ item.commentsCount = Cardinality({m \in comments : m.clip = item.id})
    /\ item.likesCount >= 0 /\ item.commentsCount >= 0

\* C19: every clip returned by GET /clips, GET /clips/:id or
\* GET /clips/user/:userId, with no write running during the request, has
\* likesCount equal to the number of Likes with that clip and type 'clip'
\* and commentsCount equal to the number of Comments of that clip.
C19_CountsMatchStores ==
    /\ out.op \in {"listPage", "listByAuthor"}
       => \A i \in 1..Len(out.clips) : CountsMatch(out.clips[i])
    /\ (out.op = "getOne" /\ out.status = 200) => CountsMatch(out.clip)

\* the author's listing returned a clip with one like and one comment
C19_Witness ==
    /\ out.op = "listByAuthor" /\ Len(out.clips) = 1
    /\ out.clips[1].likesCount = 1 /\ out.clips[1].commentsCount = 1

\* the logged toggles of viewer v on clip c that responded 200
Toggled200(v, c) ==
    {i \in 1..Len(hist) : /\ hist[i].op = "like"
                          /\ hist[i].user = v /\ hist[i].clip = c
                          /\ hist[i].response.status = 200}

\* C20: once every toggle issued by a viewer on a clip has completed, the
\* (viewer, clip) Like exists exactly when the initial state (no Like) has
\* been flipped once per toggle that responded 200, and the isLiked values
\* of the 200 responses are those of that many successive flips: liked,
\* not liked, liked, ...
C20_TogglesSerialize ==
    AllIdle
    => \A v \in Users, c \in ClipIds :
          LET n == Cardinality(Toggled200(v, c))
              liked == Cardinality({i \in Toggled200(v, c) : hist[i].response.isLiked})
          IN /\ (ClipLikesOf(v, c) # {}) = (n % 2 = 1)
             /\ liked = (n + 1) \div 2

\* the documents of the three collections that a DELETE of clip c may remove
OfClip(c) ==
    [clips |-> {x \in clips : x.id = c},
     comments |-> {m \in comments : m.clip = c},
     likes |-> {l \in likes : l.clip = c /\ l.type = "clip"}]

\* C21: every store operation of a DELETE /clips/:id handler on clip c adds
\* no document and removes only documents among c itself, the Comments
\* whose clip is c and the clip-kind Likes on c, so every other Clip, every
\* Comment of another clip and every Like on another target stays as it
\* was; and when the handler, with no other handler in flight from its
\* start to its end, responds 200, c, its
\* Comments and its clip-kind Likes are gone and the Likes are exactly
\* those present when the handler started minus the clip-kind Likes on c.
C21_DeleteRemovesOnlyItsOwn ==
    [][\A r \in Slots :
          (reqs[r].op = "delete" /\ reqs'[r].pc # reqs[r].pc)
          => LET c == reqs[r].clip
             IN /\ clips' \subseteq clips
                /\ comments' \subseteq comments
                /\ likes' \subseteq likes
                /\ clips \ clips' \subseteq OfClip(c).clips
                /\ comments \ comments' \subseteq OfClip(c).comments
                /\ likes \ likes' \subseteq OfClip(c).likes
                /\ (reqs[r].solo /\ out'.op = "delete" /\ out'.status = 200)
                   => /\ OfClip(c).clips # {}
                      /\ clips' = clips \ OfClip(c).clips
                      /\ {m \in comments' : m.clip = c} = {}
                      /\ LikeKeys(likes') =
                            {k \in reqs[r].before :
                                ~(k[2] = c /\ k[3] = "clip")}]_vars

\* a DELETE responded 200 after its cascade removed a Like or a Comment,
\* and the other clip is still stored with a Like or a Comment of its own
C21_Witness ==
    /\ out.op = "delete" /\ out.status = 200
    /\ out.clip \notin ClipIds
    /\ \/ nextLikeId - 1 > Cardinality(likes)
       \/ nextCommentId - 1 > Cardinality(comments)
    /\ \E x \in clips :
          \/ {l \in likes : l.clip = x.id /\ l.type = "clip"} # {}
          \/ {m \in comments : m.clip = x.id} # {}

====
